---- MODULE Spec2Model ----
(***************************************************************************)
(* ResearchFlow: the run registry of src/api.py, the background task that  *)
(* drives ResearchOrchestrator.run_research (src/orchestrator.py) through  *)
(* its four LangGraph nodes, and the agents the nodes call.                *)
(*                                                                         *)
(* Python values: a dict is a function on its keys, a list a sequence, a   *)
(* text that is sliced or formatted (query, title, content) a sequence of  *)
(* tokens (one token per character of a query, one per literal piece), a   *)
(* status or an exception message a string.  All coroutines run on one     *)
(* asyncio event loop: code between two awaits is one atomic step.         *)
(***************************************************************************)
EXTENDS Integers, Sequences, FiniteSets, TLC

VARIABLES
    research_results,   \* api.py:50, query_id -> entry
    task,               \* per query_id: the background task _run_research_task
    polled,             \* per watched query_id: the statuses a poller was answered
    log,                \* per query_id: what each agent call did (history)
    clock,              \* datetime.utcnow(), in seconds
    index,              \* vector_store.py:39, the Pinecone index: id -> vector
    index_response,     \* what the client of index_documents was last answered
    call                \* the last direct call of an agent method, with its result

vars == <<research_results, task, polled, log, clock, index, index_response, call>>

---------------------------------------------------------------------------
(* Bounds of the model *)

\* submissions made in Spec and SpecTimed
MaxRuns == 1

\* submissions made in SpecConc
MaxConcRuns == 2

\* the clock stops advancing here
MaxClock == 400

\* seconds per Tick
TickSeconds == 100

\* items a backend answers with, in the direct calls of SpecAgents
MaxHits == 2

(* Settings.research_timeout *)
research_timeout == 300

---------------------------------------------------------------------------
(* Python built-ins *)

None == [none |-> TRUE]

EmptyDict == [k \in {} |-> k]

\* d.get(k, default)
Get(d, k, default) == IF k \in DOMAIN d THEN d[k] ELSE default

\* d[k] = v
SetItem(d, k, v) == [x \in DOMAIN d \cup {k} |-> IF x = k THEN v ELSE d[x]]

\* d.update(e)
Update(d, e) == [k \in DOMAIN d \cup DOMAIN e |-> IF k \in DOMAIN e THEN e[k] ELSE d[k]]

\* `not v` for a value that is None or a dict
Falsy(v) == v = None \/ DOMAIN v = {}

\* s[:n]
Take(s, n) == SubSeq(s, 1, IF Len(s) < n THEN Len(s) ELSE n)

\* f"error: {str(e)}"
ErrStatus(e) == "error: " \o e

---------------------------------------------------------------------------
(* The environment: queries, exceptions, what the backends answer *)

Queries == {<<"q", "1">>}

ConcQueries == {<<"q", "1">>}

\* raised by a backend call (network, provider)
CapabilityErrors == {"ConnectionRefused"}

\* raised inside an agent outside its own handling (ImportError, a client
\* constructor, a KeyError)
LogicErrors == {"KeyError"}

\* raised by workflow.ainvoke itself
WorkflowErrors == {"GraphError"}

\* raised by print when stdout is gone
PrintErrors == {"BrokenPipe"}

AllErrors == CapabilityErrors \cup LogicErrors \cup WorkflowErrors \cup PrintErrors

ErrorStatuses == {ErrStatus(e) : e \in AllErrors}

ItemA == [title |-> <<"T">>, url |-> <<"U">>, content |-> <<"c">>, score |-> 1]

MatchA == [content |-> <<"d">>, metadata |-> EmptyDict, score |-> 1]

\* a match with the content of ItemA
MatchB == [content |-> <<"c">>, metadata |-> EmptyDict, score |-> 1]

\* client.search(query, max_results)["results"]
SearchBackendResults == {<< >>, <<ItemA>>}

\* vector_store.search(query, k)
RetrievalBackendResults == {<< >>, <<MatchA>>, <<MatchA, MatchB>>}

\* response.content of llm.ainvoke
LlmResponses == {<<"generated">>}

Ok(v) == [kind |-> "ok", value |-> v, err |-> ""]

Fault(e) == [kind |-> "fault", value |-> << >>, err |-> e]

Raise(e) == [kind |-> "raise", value |-> << >>, err |-> e]

\* WebSearchAgent.process: the backend answers, the backend faults, or the
\* agent raises before its try (tavily missing, TavilyClient(...))
WebOutcomes ==
    {Ok(v) : v \in SearchBackendResults}
        \cup {Fault(e) : e \in CapabilityErrors}
        \cup {Raise(e) : e \in LogicErrors}

\* DocumentAgent.process: search_documents catches everything
DocOutcomes ==
    {Ok(v) : v \in RetrievalBackendResults} \cup {Fault(e) : e \in CapabilityErrors}

\* AnalysisAgent.process / WriterAgent.process: llm.ainvoke answers or
\* faults, or the agent raises before its try (ChatGoogleGenerativeAI(...))
LlmOutcomes ==
    {Ok(v) : v \in LlmResponses}
        \cup {Fault(e) : e \in CapabilityErrors}
        \cup {Raise(e) : e \in LogicErrors}

\* the environment of SpecAgents: query texts, items of the search backend
\* (complete, without url and score, without any field) and matches of the
\* vector store (complete, content only, without content)
AgentQueries == {<<"q", "1">>, <<"r">>, << >>}

AgentItems ==
    {ItemA, [title |-> <<"T2">>, content |-> <<"c2">>], EmptyDict}

AgentMatches ==
    {MatchA, [content |-> <<"x">>], [metadata |-> [topic |-> "m"], score |-> 2]}

\* the sequences of at most n elements of S
SeqsUpTo(S, n) == UNION {[1..k -> S] : k \in 0..n}

AgentWebOutcomes ==
    {Ok(v) : v \in SeqsUpTo(AgentItems, MaxHits)}
        \cup {Fault(e) : e \in CapabilityErrors}
        \cup {Raise(e) : e \in LogicErrors}

AgentDocOutcomes ==
    {Ok(v) : v \in SeqsUpTo(AgentMatches, MaxHits)}
        \cup {Fault(e) : e \in CapabilityErrors}

\* the environment of SpecLive: two query texts; every port answers, faults
\* or (but for retrieval) has its agent raise
LiveQueries == {<<"q", "1">>, <<"r">>}

LiveWebOutcomes ==
    {Ok(<< >>)}
        \cup {Fault(e) : e \in CapabilityErrors}
        \cup {Raise(e) : e \in LogicErrors}

LiveDocOutcomes == {Ok(<< >>)} \cup {Fault(e) : e \in CapabilityErrors}

\* bodies of index requests: as many metadatas as texts, or fewer
IndexRequests ==
    {[texts |-> <<"t">>, metadatas |-> <<[topic |-> "m"]>>],
     [texts |-> <<"t", "u">>, metadatas |-> <<[topic |-> "m"]>>]}

\* bodies of the index requests of SpecIndex: also two texts with two
\* metadatas, and more metadatas than texts
ObservedIndexRequests ==
    IndexRequests
        \cup {[texts |-> <<"a", "b">>, metadatas |-> <<EmptyDict, EmptyDict>>],
               [texts |-> <<"a">>, metadatas |-> <<EmptyDict, EmptyDict>>]}

\* the embedding and the upsert succeed, or one of them raises
IndexOutcomes == {Ok(<< >>)} \cup {Fault(e) : e \in CapabilityErrors}

\* the environment of SpecConc: the backends answer, so that the runs differ
\* only in how the workflow and the task end
ConcWebOutcomes == {Ok(<<ItemA>>)}

ConcDocOutcomes == {Ok(<< >>)}

ConcAnalysisOutcomes == {Ok(v) : v \in LlmResponses}

ConcWriterOutcomes == {Ok(v) : v \in LlmResponses}

---------------------------------------------------------------------------
(* src/agents *)

\* a hit whose missing score becomes 1
WebHit_ScoreOne(item) ==
    [title |-> Get(item, "title", << >>),
     url |-> Get(item, "url", << >>),
     content |-> Get(item, "content", << >>),
     source |-> "web_search",
     score |-> Get(item, "score", 1)]

WebHit(item) ==
    [title |-> Get(item, "title", << >>),
     url |-> Get(item, "url", << >>),
     content |-> Get(item, "content", << >>),
     source |-> "web_search",
     score |-> Get(item, "score", 0)]

\* search_web losing the degraded hit of a backend fault
search_web_NoDegradedHit(o) ==
    IF o.kind = "ok" THEN [i \in 1..Len(o.value) |-> WebHit(o.value[i])] ELSE << >>

search_web(o) ==
    IF o.kind = "ok"
    THEN [i \in 1..Len(o.value) |-> WebHit(o.value[i])]
    ELSE << [content |-> << >>,
             error |-> "Search failed: " \o o.err,
             source |-> "web_search",
             score |-> 0] >>

\* process keeping only the hits without an error tag
WebSearchAgent_process_FiltersDegraded(query, o) ==
    [query |-> query,
     results |-> SelectSeq(search_web(o), LAMBDA hit : "error" \notin DOMAIN hit),
     agent_type |-> "web_search",
     status |-> "completed"]

WebSearchAgent_process(query, o) ==
    [query |-> query,
     results |-> search_web(o),
     agent_type |-> "web_search",
     status |-> "completed"]

DocHit(result) ==
    [content |-> Get(result, "content", << >>),
     metadata |-> Get(result, "metadata", EmptyDict),
     score |-> Get(result, "score", 0),
     source |-> "document_db"]

search_documents(o) ==
    IF o.kind = "ok"
    THEN [i \in 1..Len(o.value) |-> DocHit(o.value[i])]
    ELSE << [content |-> << >>,
             error |-> "Document search failed: " \o o.err,
             source |-> "document_db",
             score |-> 0] >>

DocumentAgent_process(query, o) ==
    [query |-> query,
     results |-> search_documents(o),
     agent_type |-> "document_retrieval",
     status |-> "completed"]

\* the text of one source in the context
source_text(i, source) ==
    LET content == Get(source, "content", << >>)
        title == Get(source, "title", << >>)
        url == Get(source, "url", << >>)
    IN  <<"\nSource ", ToString(i), ":">>
            \o (IF title # << >> THEN <<"\nTitle: ">> \o title ELSE << >>)
            \o (IF url # << >> THEN <<"\nURL: ">> \o url ELSE << >>)
            \o <<"\nContent: ">> \o Take(content, 500) \o <<"...">>

RECURSIVE _prepare_context(_)
\* "\n".join of the texts of the sources
_prepare_context(sources) ==
    IF sources = << >>
    THEN << >>
    ELSE LET n == Len(sources)
             front == _prepare_context(SubSeq(sources, 1, n - 1))
         IN  (IF n = 1 THEN << >> ELSE front \o <<"\n">>) \o source_text(n, sources[n])

\* the prompt analyze sends to llm.ainvoke
analysis_prompt(sources) ==
    <<"Analyze the following research sources and provide key insights:\n\n">>
        \o _prepare_context(sources)
        \o <<"\n\nPlease provide:">>

\* analyze counting only the hits without an error tag
analyze_CountsEvidenceOnly(sources, o) ==
    [analysis |-> IF o.kind = "ok" THEN o.value ELSE <<"Analysis failed: ", o.err>>,
     sources_count |->
         Cardinality({i \in 1..Len(sources) : "error" \notin DOMAIN sources[i]}),
     agent_type |-> "analysis",
     status |-> "completed"]

analyze(sources, o) ==
    [analysis |-> IF o.kind = "ok" THEN o.value ELSE <<"Analysis failed: ", o.err>>,
     sources_count |-> Len(sources),
     agent_type |-> "analysis",
     status |-> "completed"]

\* write_report without the placeholder of a generation fault
write_report_NoPlaceholder(query, analysis, sources, web_results, o) ==
    [title |-> <<"Research Report: ">> \o Take(query, 50),
     content |-> o.value,
     metadata |-> [query |-> query,
                   timestamp |-> clock,
                   sources_count |-> Len(sources),
                   web_results_count |-> Len(web_results),
                   agent_type |-> "writer"],
     status |-> "completed"]

write_report(query, analysis, sources, web_results, o) ==
    [title |-> <<"Research Report: ">> \o Take(query, 50),
     content |-> IF o.kind = "ok" THEN o.value ELSE <<"Report generation failed: ", o.err>>,
     metadata |-> [query |-> query,
                   timestamp |-> clock,
                   sources_count |-> Len(sources),
                   web_results_count |-> Len(web_results),
                   agent_type |-> "writer"],
     status |-> "completed"]

---------------------------------------------------------------------------
(* src/orchestrator.py *)

\* a state that does not take the query of the call
InitialState_FixedQuery(query, query_id, now) ==
    [query |-> <<"q", "1">>,
     query_id |-> query_id,
     web_results |-> << >>,
     document_results |-> << >>,
     analysis |-> EmptyDict,
     final_report |-> EmptyDict,
     status |-> "initialized",
     timestamp |-> now]

InitialState(query, query_id, now) ==
    [query |-> query,
     query_id |-> query_id,
     web_results |-> << >>,
     document_results |-> << >>,
     analysis |-> EmptyDict,
     final_report |-> EmptyDict,
     status |-> "initialized",
     timestamp |-> now]

\* a search node that adds the hits to the ones already stored
_run_web_search_Accumulates(state, o) ==
    SetItem(state, "web_results",
            state.web_results
                \o Get(WebSearchAgent_process(state.query, o), "results", << >>))

_run_web_search(state, o) ==
    IF o.kind = "raise"
    THEN SetItem(state, "web_results", << >>)
    ELSE SetItem(state, "web_results",
                 Get(WebSearchAgent_process(state.query, o), "results", << >>))

_run_document_retrieval(state, o) ==
    IF o.kind = "raise"
    THEN SetItem(state, "document_results", << >>)
    ELSE SetItem(state, "document_results",
                 Get(DocumentAgent_process(state.query, o), "results", << >>))

\* the documents ahead of the web results
all_sources_DocumentsFirst(state) == state.document_results \o state.web_results

\* what _run_analysis hands to analysis_agent.process
all_sources(state) == state.web_results \o state.document_results

\* a node that calls analysis_agent.process whatever was gathered
AnalysisCalled_Always(state) == Len(state.web_results \o state.document_results) >= 0

\* whether the node calls analysis_agent.process
AnalysisCalled(state) == Len(all_sources(state)) > 0

\* an analysis node that empties the gathered documents
_run_analysis_ClearsDocuments(state, o) ==
    SetItem(SetItem(state, "analysis", analyze(all_sources(state), o)),
            "document_results", << >>)

_run_analysis(state, o) ==
    IF AnalysisCalled(state)
    THEN IF o.kind = "raise"
         THEN SetItem(state, "analysis", [error |-> o.err, status |-> "error"])
         ELSE SetItem(state, "analysis", analyze(all_sources(state), o))
    ELSE SetItem(state, "analysis",
                 [analysis |-> <<"No sources found for analysis">>,
                  status |-> "completed"])

\* a writing node that hands the writer every source as documents
_run_write_report_CountsAllSources(state, o) ==
    SetItem(state, "final_report",
            write_report(state.query,
                         Get(state.analysis, "analysis", << >>),
                         all_sources(state),
                         state.web_results,
                         o))

_run_write_report(state, o) ==
    IF o.kind = "raise"
    THEN SetItem(state, "final_report", [error |-> o.err, status |-> "error"])
    ELSE SetItem(state, "final_report",
                 write_report(state.query,
                              Get(state.analysis, "analysis", << >>),
                              state.document_results,
                              state.web_results,
                              o))

\* run_research after ainvoke returned
WorkflowDone(final_state) == SetItem(final_state, "status", "completed")

\* run_research when ainvoke raised e
WorkflowFailed(initial_state, e) == SetItem(initial_state, "status", ErrStatus(e))

---------------------------------------------------------------------------
(* src/api.py *)

\* an identifier derived from the query text
NewQueryId_FromQuery(query) == Len(query)

\* str(uuid.uuid4()) of start_research: a value no earlier call returned
NewQueryId(query) == Cardinality(DOMAIN research_results) + 1

\* one identifier for every call of run_research
OrchestratorQueryId_Shared(query_id) == 0 - 1

\* str(uuid.uuid4()) of run_research, for the run registered as query_id: a
\* value no other call returns
OrchestratorQueryId(query_id) == 0 - query_id

\* an identifier no call returned
UnknownId == 0

\* an entry created already finished
NewEntry_Terminal(query, query_id, now) ==
    [query |-> query,
     query_id |-> query_id,
     status |-> "completed",
     web_results |-> << >>,
     document_results |-> << >>,
     analysis |-> None,
     final_report |-> None,
     timestamp |-> now,
     created_at |-> now]

NewEntry(query, query_id, now) ==
    [query |-> query,
     query_id |-> query_id,
     status |-> "running",
     web_results |-> << >>,
     document_results |-> << >>,
     analysis |-> None,
     final_report |-> None,
     timestamp |-> now,
     created_at |-> now]

\* the task publishing the state as the orchestrator created it
TaskPublish_InitialStatus(entry, result) ==
    Update(entry, SetItem(result, "status", "initialized"))

\* the task leaving the status of the merged state
TaskPublish_MergedStatus(entry, result) == Update(entry, result)

\* _run_research_task, run_research returned result
TaskPublish(entry, result) == SetItem(Update(entry, result), "status", "completed")

\* _run_research_task, run_research raised e
TaskExcept(entry, e) == SetItem(entry, "status", ErrStatus(e))

\* the answer of get_research_status
StatusResponse(query_id) ==
    IF query_id \notin DOMAIN research_results
    THEN [code |-> 404]
    ELSE LET result == research_results[query_id]
         IN  [code |-> 200,
              query_id |-> query_id,
              query |-> Get(result, "query", << >>),
              status |-> Get(result, "status", "unknown"),
              web_results |-> Get(result, "web_results", << >>),
              document_results |-> Get(result, "document_results", << >>),
              analysis |-> Get(result, "analysis", None),
              final_report |-> Get(result, "final_report", None),
              timestamp |-> Get(result, "timestamp", clock)]

\* get_research_report answering from whatever the entry holds
ReportResponse_NeverNotReady(query_id) ==
    IF query_id \notin DOMAIN research_results
    THEN [code |-> 404]
    ELSE [code |-> 200, query_id |-> query_id]

\* the answer of get_research_report
ReportResponse(query_id) ==
    IF query_id \notin DOMAIN research_results
    THEN [code |-> 404]
    ELSE LET result == research_results[query_id]
             final_report == Get(result, "final_report", None)
         IN  IF Falsy(final_report)
             THEN [code |-> 400]
             ELSE [code |-> 200,
                   query_id |-> query_id,
                   title |-> Get(final_report, "title", << >>),
                   content |-> Get(final_report, "content", << >>),
                   summary |-> Get(final_report, "summary", None),
                   web_results_count |-> Len(Get(result, "web_results", << >>)),
                   document_results_count |-> Len(Get(result, "document_results", << >>)),
                   created_at |-> Get(result, "timestamp", clock)]

\* PineconeStore.add_documents: the ids of one call
DocIds(texts) == [i \in 1..Len(texts) |-> <<"doc_", i - 1>>]

\* PineconeStore.add_documents: the index after the upsert of the vectors
\* zipped from doc_ids, texts and metadatas
add_documents(store, texts, metadatas) ==
    LET n == IF Len(texts) <= Len(metadatas) THEN Len(texts) ELSE Len(metadatas)
        upserted == {DocIds(texts)[i] : i \in 1..n}
        Position(d) == CHOOSE i \in 1..n : DocIds(texts)[i] = d
    IN  [d \in DOMAIN store \cup upserted |->
            IF d \in upserted
            THEN [id |-> d,
                  metadata |-> SetItem(metadatas[Position(d)], "text", texts[Position(d)])]
            ELSE store[d]]

\* index_documents answering success whatever the backend did
IndexResponse_SwallowsFault(query_id, documents, o) ==
    IF query_id \notin DOMAIN research_results
    THEN [code |-> 404]
    ELSE [code |-> 200,
          status |-> "success",
          document_count |-> Len(Get(documents, "texts", << >>)),
          document_ids |-> [i \in 1..Len(Get(documents, "texts", << >>)) |-> <<"doc_", i - 1>>]]

\* the answer of index_documents
IndexResponse(query_id, documents, o) ==
    IF query_id \notin DOMAIN research_results
    THEN [code |-> 404]
    ELSE IF o.kind # "ok"
    THEN [code |-> 400, detail |-> <<"Failed to index documents: ", o.err>>]
    ELSE LET doc_ids == DocIds(Get(documents, "texts", << >>))
         IN  [code |-> 200,
              status |-> "success",
              document_count |-> Len(doc_ids),
              document_ids |-> doc_ids]

---------------------------------------------------------------------------
(* The background task of a run *)

\* the four nodes of _build_workflow, in the order of its edges
Stages == <<"web_search", "document_retrieval", "analysis", "write_report">>

\* where a task inside workflow.ainvoke is: at a node, or past the last one
InWorkflow == {"web_search", "document_retrieval", "analysis", "write_report", "END"}

\* history: the agent call of a stage, the port it reached and how it ended
\* ("ok", "fault" inside the port, "raise" out of the agent)
Event(stage, port, o) == [stage |-> stage, port |-> port, outcome |-> o.kind, err |-> o.err]

\* the event of the analysis agent: the sources it was handed and, when it
\* got as far as the Generation call, the prompt it sent
PromptEvent(stage, port, o, state) ==
    IF o.kind = "raise"
    THEN SetItem(Event(stage, port, o), "sources", all_sources(state))
    ELSE SetItem(SetItem(Event(stage, port, o), "sources", all_sources(state)),
                 "prompt", analysis_prompt(all_sources(state)))

---------------------------------------------------------------------------
(* Actions *)

Init ==
    /\ research_results = EmptyDict
    /\ task = EmptyDict
    /\ polled = EmptyDict
    /\ log = EmptyDict
    /\ clock = 0
    /\ index = EmptyDict
    /\ index_response = None
    /\ call = None

\* POST /api/research
start_research(query, cap) ==
    /\ Cardinality(DOMAIN research_results) < cap
    /\ LET query_id == NewQueryId(query)
       IN  /\ research_results' =
                 SetItem(research_results, query_id, NewEntry(query, query_id, clock))
           /\ task' = SetItem(task, query_id,
                              [pc |-> "scheduled", query |-> query,
                               state |-> EmptyDict, exc |-> ""])
           /\ log' = SetItem(log, query_id, << >>)
    /\ UNCHANGED <<polled, clock, index, index_response, call>>

\* _run_research_task starts: run_research up to workflow.ainvoke
TaskStart(id) ==
    /\ task[id].pc = "scheduled"
    /\ task' = [task EXCEPT
                   ![id].pc = "web_search",
                   ![id].state =
                       InitialState(task[id].query, OrchestratorQueryId(id), clock)]
    /\ UNCHANGED <<research_results, polled, log, clock, index, index_response, call>>

\* a search node whose exception ends the workflow
NodeWebSearch_RaiseEndsWorkflow(id, outcomes) ==
    /\ task[id].pc = "web_search"
    /\ \E o \in outcomes :
          /\ task' = [task EXCEPT
                         ![id].pc = IF o.kind = "raise" THEN "END"
                                    ELSE "document_retrieval",
                         ![id].state = _run_web_search(task[id].state, o)]
          /\ log' = [log EXCEPT ![id] = Append(@, Event("web_search", "search", o))]
    /\ UNCHANGED <<research_results, polled, clock, index, index_response, call>>

NodeWebSearch(id, outcomes) ==
    /\ task[id].pc = "web_search"
    /\ \E o \in outcomes :
          /\ task' = [task EXCEPT ![id].pc = "document_retrieval",
                                  ![id].state = _run_web_search(task[id].state, o)]
          /\ log' = [log EXCEPT ![id] = Append(@, Event("web_search", "search", o))]
    /\ UNCHANGED <<research_results, polled, clock, index, index_response, call>>

\* a retrieval node whose edge leads back to the search node
NodeDocumentRetrieval_Reentry(id, outcomes) ==
    /\ task[id].pc = "document_retrieval"
    /\ \E o \in outcomes :
          /\ task' = [task EXCEPT ![id].pc = "web_search",
                                  ![id].state = _run_document_retrieval(task[id].state, o)]
          /\ log' = [log EXCEPT
                        ![id] = Append(@, Event("document_retrieval", "retrieval", o))]
    /\ UNCHANGED <<research_results, polled, clock, index, index_response, call>>

NodeDocumentRetrieval(id, outcomes) ==
    /\ task[id].pc = "document_retrieval"
    /\ \E o \in outcomes :
          /\ task' = [task EXCEPT ![id].pc = "analysis",
                                  ![id].state = _run_document_retrieval(task[id].state, o)]
          /\ log' = [log EXCEPT
                        ![id] = Append(@, Event("document_retrieval", "retrieval", o))]
    /\ UNCHANGED <<research_results, polled, clock, index, index_response, call>>

\* an analysis node whose edge leads to END
NodeAnalysis_SkipsWriting(id, outcomes) ==
    /\ task[id].pc = "analysis"
    /\ \E o \in outcomes :
          /\ task' = [task EXCEPT ![id].pc = "END",
                                  ![id].state = _run_analysis(task[id].state, o)]
          /\ log' = log
    /\ UNCHANGED <<research_results, polled, clock, index, index_response, call>>

NodeAnalysis(id, outcomes) ==
    /\ task[id].pc = "analysis"
    /\ IF AnalysisCalled(task[id].state)
       THEN \E o \in outcomes :
               /\ task' = [task EXCEPT ![id].pc = "write_report",
                                       ![id].state = _run_analysis(task[id].state, o)]
               /\ log' = [log EXCEPT
                             ![id] = Append(@, PromptEvent("analysis", "generation", o,
                                                           task[id].state))]
       ELSE /\ task' = [task EXCEPT
                           ![id].pc = "write_report",
                           ![id].state = _run_analysis(task[id].state, Ok(<< >>))]
            /\ log' = log
    /\ UNCHANGED <<research_results, polled, clock, index, index_response, call>>

NodeWriteReport(id, outcomes) ==
    /\ task[id].pc = "write_report"
    /\ \E o \in outcomes :
          /\ task' = [task EXCEPT ![id].pc = "END",
                                  ![id].state = _run_write_report(task[id].state, o)]
          /\ log' = [log EXCEPT
                        ![id] = Append(@, Event("write_report", "generation", o))]
    /\ UNCHANGED <<research_results, polled, clock, index, index_response, call>>

\* ainvoke returns: run_research returns final_state and the task publishes
\* it (no await in between)
TaskFinish(id) ==
    /\ task[id].pc = "END"
    /\ LET result == WorkflowDone(task[id].state)
       IN  /\ task' = [task EXCEPT ![id].pc = "done", ![id].state = result]
           /\ research_results' =
                 [research_results EXCEPT ![id] = TaskPublish(@, result)]
    /\ UNCHANGED <<polled, log, clock, index, index_response, call>>

\* ainvoke raises e: run_research returns initial_state marked with the
\* error and the task publishes it; or the print of run_research's handler
\* raises p (stdout is gone), and p reaches the handler of the task
WorkflowFault(id, errors, prints) ==
    /\ task[id].pc \in InWorkflow
    /\ \E e \in errors :
          LET initial_state ==
                  InitialState(task[id].query, task[id].state.query_id,
                               task[id].state.timestamp)
              result == WorkflowFailed(initial_state, e)
          IN  /\ log' = [log EXCEPT
                            ![id] = Append(@, Event("workflow", "none", Raise(e)))]
              /\ \/ /\ task' = [task EXCEPT ![id].pc = "done", ![id].state = result]
                    /\ research_results' =
                          [research_results EXCEPT ![id] = TaskPublish(@, result)]
                 \/ \E p \in prints :
                       /\ task' = [task EXCEPT ![id].pc = "done",
                                               ![id].state = result,
                                               ![id].exc = p]
                       /\ research_results' =
                             [research_results EXCEPT ![id] = TaskExcept(@, p)]
    /\ UNCHANGED <<polled, clock, index, index_response, call>>

\* GET /api/research/{query_id}; a poller watching the run keeps the
\* statuses it was answered, in order, without repetitions
get_research_status(query_id) ==
    /\ LET response == StatusResponse(query_id)
       IN  IF response.code = 200 /\ query_id \in DOMAIN polled
           THEN polled' =
                   [polled EXCEPT
                       ![query_id] =
                           IF @ # << >> /\ @[Len(@)] = response.status
                           THEN @
                           ELSE Append(@, response.status)]
           ELSE polled' = polled
    /\ UNCHANGED <<research_results, task, log, clock, index, index_response, call>>

\* GET /api/research/{query_id}/report
get_research_report(query_id) ==
    /\ ReportResponse(query_id).code \in {200, 400, 404}
    /\ UNCHANGED vars

\* POST /api/research/{query_id}/index-documents
\* a client that keeps its answers (observed) remembers the request, how the
\* backend behaved and the response
index_documents(query_id, documents, o, observed) ==
    /\ index' =
          IF IndexResponse(query_id, documents, o).code = 200
          THEN add_documents(index, Get(documents, "texts", << >>),
                             Get(documents, "metadatas", << >>))
          ELSE index
    /\ index_response' =
          IF observed
          THEN [query_id |-> query_id,
                documents |-> documents,
                backend |-> o.kind,
                response |-> IndexResponse(query_id, documents, o)]
          ELSE index_response
    /\ UNCHANGED <<research_results, task, polled, log, clock, call>>

\* a direct call of an agent method (as the unit tests make them): what was
\* called, with which query, what the backend did, and what came back
Called(method, query, o, result) ==
    [method |-> method,
     query |-> query,
     backend |-> o,
     returned |-> o.kind # "raise",
     result |-> IF o.kind # "raise" THEN result ELSE None]

Call_search_web(query, o) ==
    /\ call' = Called("search_web", query, o, search_web(o))
    /\ UNCHANGED <<research_results, task, polled, log, clock, index, index_response>>

Call_search_documents(query, o) ==
    /\ call' = Called("search_documents", query, o, search_documents(o))
    /\ UNCHANGED <<research_results, task, polled, log, clock, index, index_response>>

Call_WebSearchAgent_process(query, o) ==
    /\ call' = Called("WebSearchAgent.process", query, o, WebSearchAgent_process(query, o))
    /\ UNCHANGED <<research_results, task, polled, log, clock, index, index_response>>

Call_DocumentAgent_process(query, o) ==
    /\ call' = Called("DocumentAgent.process", query, o, DocumentAgent_process(query, o))
    /\ UNCHANGED <<research_results, task, polled, log, clock, index, index_response>>

\* a client starts polling a run
Watch(query_id) ==
    /\ polled = EmptyDict
    /\ polled' = SetItem(polled, query_id, << >>)
    /\ UNCHANGED <<research_results, task, log, clock, index, index_response, call>>

\* time passes
Tick ==
    /\ clock < MaxClock
    /\ clock' = clock + TickSeconds
    /\ UNCHANGED <<research_results, task, polled, log, index, index_response, call>>

\* identifiers a client may ask about
RequestIds == DOMAIN research_results \cup {UnknownId}

\* one run, every fault of the backends, the agents and the workflow
Next ==
    \/ \E q \in Queries : start_research(q, MaxRuns)
    \/ \E id \in DOMAIN task : TaskStart(id)
    \/ \E id \in DOMAIN task : NodeWebSearch(id, WebOutcomes)
    \/ \E id \in DOMAIN task : NodeDocumentRetrieval(id, DocOutcomes)
    \/ \E id \in DOMAIN task : NodeAnalysis(id, LlmOutcomes)
    \/ \E id \in DOMAIN task : NodeWriteReport(id, LlmOutcomes)
    \/ \E id \in DOMAIN task : TaskFinish(id)
    \/ \E id \in DOMAIN task : WorkflowFault(id, WorkflowErrors, {})
    \/ \E id \in RequestIds : get_research_status(id)
    \/ \E id \in RequestIds : get_research_report(id)

Spec == Init /\ [][Next]_vars

\* concurrent runs, a poller, and stdout failing under run_research
NextConc ==
    \/ \E q \in ConcQueries : start_research(q, MaxConcRuns)
    \/ \E id \in DOMAIN task : TaskStart(id)
    \/ \E id \in DOMAIN task : NodeWebSearch(id, ConcWebOutcomes)
    \/ \E id \in DOMAIN task : NodeDocumentRetrieval(id, ConcDocOutcomes)
    \/ \E id \in DOMAIN task : NodeAnalysis(id, ConcAnalysisOutcomes)
    \/ \E id \in DOMAIN task : NodeWriteReport(id, ConcWriterOutcomes)
    \/ \E id \in DOMAIN task : TaskFinish(id)
    \/ \E id \in DOMAIN task : WorkflowFault(id, WorkflowErrors, PrintErrors)
    \/ \E id \in RequestIds : get_research_status(id)
    \/ \E id \in RequestIds : get_research_report(id)
    \/ \E id \in DOMAIN research_results : Watch(id)
    \/ \E id \in RequestIds, d \in IndexRequests, o \in IndexOutcomes :
          index_documents(id, d, o, FALSE)

SpecConc == Init /\ [][NextConc]_vars

\* one run while time passes
NextTimed == Next \/ Tick

SpecTimed == Init /\ [][NextTimed]_vars

\* runs whose port calls all return or fault, the workflow itself working
NextLive ==
    \/ \E q \in LiveQueries : start_research(q, MaxRuns)
    \/ \E id \in DOMAIN task : TaskStart(id)
    \/ \E id \in DOMAIN task : NodeWebSearch(id, LiveWebOutcomes)
    \/ \E id \in DOMAIN task : NodeDocumentRetrieval(id, LiveDocOutcomes)
    \/ \E id \in DOMAIN task : NodeAnalysis(id, LlmOutcomes)
    \/ \E id \in DOMAIN task : NodeWriteReport(id, LlmOutcomes)
    \/ \E id \in DOMAIN task : TaskFinish(id)

\* the event loop runs the background task of run id: its next step
TaskStep(id) ==
    /\ id \in DOMAIN task
    /\ \/ TaskStart(id)
       \/ NodeWebSearch(id, LiveWebOutcomes)
       \/ NodeDocumentRetrieval(id, LiveDocOutcomes)
       \/ NodeAnalysis(id, LlmOutcomes)
       \/ NodeWriteReport(id, LlmOutcomes)
       \/ TaskFinish(id)

\* every awaited call returns and the event loop resumes every task
SpecLive ==
    /\ Init
    /\ [][NextLive]_vars
    /\ \A id \in 1..MaxRuns : WF_vars(TaskStep(id))

\* direct calls of the search and retrieval agents
NextAgents ==
    \/ \E q \in AgentQueries, o \in AgentWebOutcomes : Call_search_web(q, o)
    \/ \E q \in AgentQueries, o \in AgentDocOutcomes : Call_search_documents(q, o)
    \/ \E q \in AgentQueries, o \in AgentWebOutcomes : Call_WebSearchAgent_process(q, o)
    \/ \E q \in AgentQueries, o \in AgentDocOutcomes : Call_DocumentAgent_process(q, o)

SpecAgents == Init /\ [][NextAgents]_vars

\* the node of stage k
Runner(k, state, o) ==
    CASE k = 1 -> _run_web_search(state, o)
      [] k = 2 -> _run_document_retrieval(state, o)
      [] k = 3 -> _run_analysis(state, o)
      [] k = 4 -> _run_write_report(state, o)

\* how the agent call of stage k can end
StageOutcomes(k) ==
    CASE k = 1 -> WebOutcomes
      [] k = 2 -> DocOutcomes
      [] k = 3 -> LlmOutcomes
      [] k = 4 -> LlmOutcomes

\* the states the workflow hands to the node of stage k: initial_state for
\* the first, what the node before returned for the others
RECURSIVE StageInputs(_)
StageInputs(k) ==
    IF k = 1
    THEN {InitialState(q, OrchestratorQueryId(1), 0) : q \in Queries}
    ELSE {Runner(k - 1, s, o) : s \in StageInputs(k - 1), o \in StageOutcomes(k - 1)}

\* the node of stage k applied to a state the workflow can hand it
ApplyRunner(k, state, o) ==
    /\ call' = [method |-> Stages[k],
                stage |-> k,
                input |-> state,
                backend |-> o,
                once |-> Runner(k, state, o),
                twice |-> None]
    /\ UNCHANGED <<research_results, task, polled, log, clock, index, index_response>>

\* the same node applied again, to the state it returned, its agent call
\* ending the same way
ReapplyRunner ==
    /\ "twice" \in DOMAIN call
    /\ call.twice = None
    /\ call' = [call EXCEPT !.twice = Runner(call.stage, call.once, call.backend)]
    /\ UNCHANGED <<research_results, task, polled, log, clock, index, index_response>>

\* stage nodes applied and applied again, while time passes
NextRerun ==
    \/ \E k \in 1..4 : \E s \in StageInputs(k), o \in StageOutcomes(k) :
          ApplyRunner(k, s, o)
    \/ ReapplyRunner
    \/ Tick

SpecRerun == Init /\ [][NextRerun]_vars

\* index requests of a client that keeps its answers, beside runs
NextIndex ==
    \/ \E q \in ConcQueries : start_research(q, MaxRuns)
    \/ \E id \in DOMAIN task : TaskStart(id)
    \/ \E id \in DOMAIN task : NodeWebSearch(id, ConcWebOutcomes)
    \/ \E id \in DOMAIN task : NodeDocumentRetrieval(id, ConcDocOutcomes)
    \/ \E id \in DOMAIN task : NodeAnalysis(id, ConcAnalysisOutcomes)
    \/ \E id \in DOMAIN task : NodeWriteReport(id, ConcWriterOutcomes)
    \/ \E id \in DOMAIN task : TaskFinish(id)
    \/ \E id \in DOMAIN task : WorkflowFault(id, WorkflowErrors, {})
    \/ \E id \in RequestIds : get_research_status(id)
    \/ \E id \in RequestIds, d \in ObservedIndexRequests, o \in IndexOutcomes :
          index_documents(id, d, o, TRUE)

SpecIndex == Init /\ [][NextIndex]_vars

---------------------------------------------------------------------------
(* Vocabulary of the properties *)

\* Pending < Running < {Completed, Failed}
Rank(status) ==
    IF status = "running" THEN 1
    ELSE IF status = "completed" \/ status \in ErrorStatuses THEN 2
    ELSE 0

Terminal(status) == status = "completed" \/ status \in ErrorStatuses

Done(id) == task[id].pc = "done"

\* the value run_research returned to the task
Returned(id) == task[id].state

Events(id, port, outcome) ==
    {i \in 1..Len(log[id]) : log[id][i].port = port /\ log[id][i].outcome = outcome}

\* no agent call raised and ainvoke did not raise
NoRaise(id) == \A i \in 1..Len(log[id]) : log[id][i].outcome # "raise"

Degraded(hits) ==
    /\ Len(hits) = 1
    /\ "error" \in DOMAIN hits[1]
    /\ hits[1].content = << >>
    /\ hits[1].score = 0

\* a Report: title and narrative content
IsReport(v) == {"title", "content", "metadata"} \subseteq DOMAIN v

PcIndex ==
    [web_search |-> 1, document_retrieval |-> 2, analysis |-> 3, write_report |-> 4, END |-> 5]

StageField == <<"web_results", "document_results", "analysis", "final_report">>

---------------------------------------------------------------------------
(* Properties *)

\* C1: the statuses a poller of a run is answered, in the order of its
\* polls, never go down in Pending < Running < {Completed, Failed}.
C1_PolledStatusNeverRegresses ==
    \A id \in DOMAIN polled :
        \A i, j \in 1..Len(polled[id]) :
            i <= j => Rank(polled[id][i]) <= Rank(polled[id][j])

\* a poller was answered "running" and later "completed", for a run whose
\* orchestrator returned an error status
C1_Witness ==
    \E id \in DOMAIN polled :
        /\ polled[id] = <<"running", "completed">>
        /\ Returned(id).status \in ErrorStatuses

\* C2: when an agent call raises inside a stage (a logic fault, and the
\* only fault of the run), the run is marked Failed with that exception's
\* description, no later stage executes (the fault is the last thing the
\* run did) and the fields of that stage and of the later ones stay unset.
C2_LogicFaultFailsRun ==
    \A id \in DOMAIN task :
        \A i \in 1..Len(log[id]) :
            (/\ Done(id)
             /\ log[id][i].outcome = "raise"
             /\ \A j \in 1..Len(log[id]) : log[id][j].stage # "workflow")
                => /\ Returned(id).status = ErrStatus(log[id][i].err)
                   /\ research_results[id].status = ErrStatus(log[id][i].err)
                   /\ i = Len(log[id])
                   /\ \A k \in 1..Len(Stages) :
                         PcIndex[log[id][i].stage] <= k
                             => Returned(id)[StageField[k]] \in {<< >>, EmptyDict}

\* C3: when run_research returns a failure status, or raises into the task,
\* the registry entry ends Failed with the reason and without a report.
C3_FailureReachesRegistry ==
    \A id \in DOMAIN task :
        (Done(id) /\ (Returned(id).status \in ErrorStatuses \/ task[id].exc # ""))
            => /\ research_results[id].status =
                     (IF task[id].exc # "" THEN ErrStatus(task[id].exc)
                      ELSE Returned(id).status)
               /\ Falsy(research_results[id].final_report)

\* C4: run_research never raises, and what it returns is Completed with a
\* Report, or Failed(reason) without a report.
C4_RunReturnsTerminalState ==
    \A id \in DOMAIN task :
        Done(id)
            => /\ task[id].exc = ""
               /\ \/ /\ Returned(id).status = "completed"
                     /\ IsReport(Returned(id).final_report)
                  \/ /\ Returned(id).status \in ErrorStatuses
                     /\ Falsy(Returned(id).final_report)

\* C5: a run whose only faults are faults of the search, retrieval (and
\* generation) backends is never aborted: a faulting search or retrieval
\* leaves one degraded hit, every stage runs, and the run ends Completed
\* with a report, in the registry too.
C5_CapabilityFaultsDegrade ==
    \A id \in DOMAIN task :
        (NoRaise(id) /\ (Events(id, "search", "fault") \cup Events(id, "retrieval", "fault")) # {})
            => /\ Events(id, "search", "fault") # {} => Degraded(Returned(id).web_results)
               /\ Events(id, "retrieval", "fault") # {}
                     => Degraded(Returned(id).document_results)
               /\ task[id].pc \in InWorkflow => PcIndex[task[id].pc] = Len(log[id]) + 1
               /\ Done(id)
                     => /\ Len(log[id]) = Len(Stages)
                        /\ \A k \in 1..Len(Stages) : log[id][k].stage = Stages[k]
                        /\ "analysis" \in DOMAIN Returned(id).analysis
                        /\ Returned(id).status = "completed"
                        /\ IsReport(Returned(id).final_report)
                        /\ research_results[id].status = "completed"
                        /\ research_results[id].final_report = Returned(id).final_report

\* a finished run whose search and retrieval backends both faulted
C5_Witness ==
    \E id \in DOMAIN task :
        /\ Done(id)
        /\ NoRaise(id)
        /\ Events(id, "search", "fault") # {}
        /\ Events(id, "retrieval", "fault") # {}
        /\ research_results[id].status = "completed"

\* the Generation backend faulted on every call of the run, and nothing
\* else raised
GenerationAlwaysFaults(id) ==
    /\ Done(id)
    /\ NoRaise(id)
    /\ Events(id, "generation", "ok") = {}
    /\ Events(id, "generation", "fault") # {}

CompletedWithPlaceholder(id) ==
    /\ Returned(id).status = "completed"
    /\ research_results[id].status = "completed"
    /\ IsReport(research_results[id].final_report)
    /\ \E e \in CapabilityErrors :
          research_results[id].final_report.content = <<"Report generation failed: ", e>>

\* C6 as stated: such a run ends Completed with a placeholder report, and
\* its synthesis narrative is a failure-describing text.
C6_Original ==
    \A id \in DOMAIN task :
        GenerationAlwaysFaults(id)
            => /\ CompletedWithPlaceholder(id)
               /\ \E e \in CapabilityErrors :
                     Get(research_results[id].analysis, "analysis", << >>)
                         = <<"Analysis failed: ", e>>

\* C6, amended: such a run ends Completed with a placeholder report; its
\* synthesis narrative is a failure-describing text when the run has a
\* source, and the canned no-sources text when it has none (the synthesis
\* stage then makes no Generation call).
C6_GenerationFaultsDegrade ==
    \A id \in DOMAIN task :
        GenerationAlwaysFaults(id)
            => /\ CompletedWithPlaceholder(id)
               /\ "analysis" \in DOMAIN research_results[id].analysis
               /\ IF AnalysisCalled(Returned(id))
                  THEN \E e \in CapabilityErrors :
                          research_results[id].analysis.analysis = <<"Analysis failed: ", e>>
                  ELSE research_results[id].analysis.analysis
                          = <<"No sources found for analysis">>

\* a finished run whose two Generation calls both faulted
C6_Witness ==
    \E id \in DOMAIN task :
        /\ GenerationAlwaysFaults(id)
        /\ Cardinality(Events(id, "generation", "fault")) = 2

\* C7: once a stage of a run is over, get_research_status answers with
\* that stage's output.
C7_StagePublished ==
    \A id \in DOMAIN task :
        task[id].pc \in InWorkflow
            => \A k \in 1..Len(Stages) :
                  PcIndex[task[id].pc] > k
                      => StatusResponse(id)[StageField[k]] = task[id].state[StageField[k]]

\* C8: a reader sees the entry of a run either as start_research created
\* it (status "running", no results) or as the finished task left it (the
\* final status with all the results of run_research, or the status of the
\* task's own failure with none): never results under the status
\* "running", never the status run_research returned.
C8_NoTornWrite ==
    \A id \in DOMAIN research_results :
        LET r == StatusResponse(id)
        IN  \/ /\ ~Done(id)
               /\ r.status = "running"
               /\ r.web_results = << >> /\ r.document_results = << >>
               /\ r.analysis = None /\ r.final_report = None
            \/ /\ Done(id) /\ task[id].exc = ""
               /\ r.status = "completed"
               /\ \A k \in 1..Len(Stages) : r[StageField[k]] = Returned(id)[StageField[k]]
            \/ /\ Done(id) /\ task[id].exc # ""
               /\ r.status = ErrStatus(task[id].exc)
               /\ r.web_results = << >> /\ r.document_results = << >>
               /\ r.analysis = None /\ r.final_report = None

\* the task merged a state whose status was an error and has set the final
\* status
C8_Witness ==
    \E id \in DOMAIN research_results :
        /\ Done(id) /\ task[id].exc = ""
        /\ Returned(id).status \in ErrorStatuses
        /\ StatusResponse(id).status = "completed"

\* C9: once the entry of a run has a terminal status, no step changes it.
C9_TerminalIsAbsorbing ==
    [][\A id \in DOMAIN research_results :
          Terminal(research_results[id].status)
              => /\ id \in DOMAIN research_results'
                 /\ research_results'[id] = research_results[id]]_vars

\* two finished runs, one Completed and one Failed (the second to finish
\* did so beside a terminal entry), a poller of one of them, and documents
\* indexed
C9_Witness ==
    \E a, b \in DOMAIN research_results :
        /\ Done(a) /\ Done(b)
        /\ research_results[a].status = "completed"
        /\ research_results[b].status \in ErrorStatuses
        /\ polled # EmptyDict
        /\ index # EmptyDict

\* C10: once a run has lasted longer than research_timeout, its next step
\* marks it Failed("timeout") and makes no port call.
C10_BudgetBoundsRun ==
    [][\A id \in DOMAIN task :
          (task[id].pc \in InWorkflow /\ clock - task[id].state.timestamp > research_timeout)
              => \/ task'[id] = task[id]
                 \/ /\ task'[id].pc = "done"
                    /\ research_results'[id].status = ErrStatus("timeout")
                    /\ log'[id] = log[id]]_vars

\* C11: when start_research has returned and the task it scheduled has not
\* started, no stage of the run has executed and get_research_status
\* answers the run (not 404) with the status "running" and no result.
C11_SubmitDoesNotRunThePipeline ==
    \A id \in DOMAIN task :
        task[id].pc = "scheduled"
            => /\ log[id] = << >>
               /\ task[id].state = EmptyDict
               /\ StatusResponse(id).code = 200
               /\ StatusResponse(id).status = "running"
               /\ ~Terminal(StatusResponse(id).status)
               /\ StatusResponse(id).web_results = << >>
               /\ StatusResponse(id).final_report = None

\* a run just submitted, beside a run that is finished
C11_Witness ==
    \E a, b \in DOMAIN task :
        /\ task[a].pc = "scheduled"
        /\ Done(b)
        /\ StatusResponse(a).status = "running"

\* C12: for a run in the registry, get_research_report answers "not yet
\* generated" (400) exactly when the status of the run is not "completed",
\* and answers with the report of the run when it is.
C12_ReportIffCompleted ==
    \A id \in DOMAIN research_results :
        /\ ReportResponse(id).code = 400 <=> research_results[id].status # "completed"
        /\ research_results[id].status = "completed"
              => /\ ReportResponse(id).code = 200
                 /\ IsReport(research_results[id].final_report)
                 /\ ReportResponse(id).title = research_results[id].final_report.title
                 /\ ReportResponse(id).content = research_results[id].final_report.content

\* C13: every submission gets an identifier no entry has, and the entry of
\* a run is written only by the step that ends the run's own task, with
\* what that task's run_research returned (or with nothing, when the task
\* raised): every step leaves the entries of the other runs as they were.
C13_RunsAreIndependent ==
    [][/\ \A id \in DOMAIN research_results : id \in DOMAIN research_results'
       /\ Cardinality(DOMAIN research_results') <= Cardinality(DOMAIN research_results) + 1
       /\ \A id \in DOMAIN research_results' \ DOMAIN research_results :
             /\ research_results'[id].query_id = id
             /\ task'[id].pc = "scheduled"
             /\ \A other \in DOMAIN research_results :
                   research_results'[other] = research_results[other]
       /\ \A id \in DOMAIN research_results :
             research_results'[id] # research_results[id]
                 => /\ ~Done(id)
                    /\ task'[id].pc = "done"
                    /\ \A other \in DOMAIN research_results \ {id} :
                          /\ research_results'[other] = research_results[other]
                          /\ task'[other] = task[other]
                    /\ IF task'[id].exc = ""
                       THEN /\ research_results'[id].query_id = task'[id].state.query_id
                            /\ \A other \in DOMAIN task' \ {id} :
                                  Get(task'[other].state, "query_id", UnknownId)
                                      # task'[id].state.query_id
                            /\ \A k \in 1..Len(Stages) :
                                  research_results'[id][StageField[k]]
                                      = task'[id].state[StageField[k]]
                       ELSE \A k \in 1..Len(Stages) :
                               research_results'[id][StageField[k]]
                                   = research_results[id][StageField[k]]]_vars

\* two runs of the same query text under two identifiers, one ended by a
\* fault of the workflow and one with its results
C13_Witness ==
    \E a, b \in DOMAIN research_results :
        /\ a # b
        /\ research_results[a].query = research_results[b].query
        /\ Done(a) /\ Done(b)
        /\ Returned(a).status \in ErrorStatuses
        /\ Returned(b).status = "completed"
        /\ research_results[b].web_results # << >>
        /\ research_results[a].web_results = << >>

\* C14: when the search stage and the retrieval stage of a run both left an
\* empty sequence, the analysis stage makes no Generation call and leaves
\* the canned analysis "No sources found for analysis".
C14_NoSourcesNoGeneration ==
    \A id \in DOMAIN task :
        (/\ task[id].pc \in {"write_report", "END"}
         /\ task[id].state.web_results = << >>
         /\ task[id].state.document_results = << >>)
            => /\ \A i \in 1..Len(log[id]) : log[id][i].stage # "analysis"
               /\ task[id].state.analysis =
                     [analysis |-> <<"No sources found for analysis">>,
                      status |-> "completed"]

\* the analysis stage is over for a run whose search and retrieval backends
\* both answered with nothing
C14_Witness ==
    \E id \in DOMAIN task :
        /\ task[id].pc = "write_report"
        /\ Events(id, "search", "ok") # {}
        /\ Events(id, "retrieval", "ok") # {}
        /\ task[id].state.web_results = << >>
        /\ task[id].state.document_results = << >>

\* C15: the source count of the analysis of a run is the number of its web
\* results plus the number of its document results, a degraded hit counted
\* as one: one degraded search hit and two retrieval hits count 3.
C15_SourceCountIsTotal ==
    \A id \in DOMAIN task :
        (/\ task[id].pc \in {"write_report", "END"}
         /\ "sources_count" \in DOMAIN task[id].state.analysis)
            => /\ task[id].state.analysis.sources_count =
                     Len(task[id].state.web_results) + Len(task[id].state.document_results)
               /\ (/\ Degraded(task[id].state.web_results)
                   /\ Len(task[id].state.document_results) = 2)
                      => task[id].state.analysis.sources_count = 3

\* analysed: one degraded search hit and two retrieval hits without an
\* error tag
C15_Witness ==
    \E id \in DOMAIN task :
        /\ task[id].pc = "write_report"
        /\ Degraded(task[id].state.web_results)
        /\ Len(task[id].state.document_results) = 2
        /\ \A i \in 1..2 : "error" \notin DOMAIN task[id].state.document_results[i]
        /\ "sources_count" \in DOMAIN task[id].state.analysis
        /\ task[id].state.analysis.sources_count = 3

\* the entries ("Source i:") of the context inside a prompt
ContextEntries(prompt) == {k \in 1..Len(prompt) : prompt[k] = "\nSource "}

\* the hits without an error tag
Evidence(sources) == {i \in 1..Len(sources) : "error" \notin DOMAIN sources[i]}

\* C16: the prompt the analysis stage sends to Generation has one source
\* entry per hit without an error tag, and none for a degraded hit.
C16_DegradedHitNotInPrompt ==
    \A id \in DOMAIN task :
        task[id].pc \in {"write_report", "END"}
            => \A i \in 1..Len(log[id]) :
                  "prompt" \in DOMAIN log[id][i]
                      => Cardinality(ContextEntries(log[id][i].prompt)) =
                            Cardinality(Evidence(task[id].state.web_results
                                                     \o task[id].state.document_results))

\* C17: no call of search_web or search_documents raises: whatever fails
\* inside it, the call returns, and the stage is left with one error-tagged
\* hit of empty content and score zero.
C17_ReadPortsNeverRaise ==
    \A id \in DOMAIN task :
        \A i \in 1..Len(log[id]) :
            log[id][i].port \in {"search", "retrieval"}
                => /\ log[id][i].outcome # "raise"
                   /\ (log[id][i].outcome = "fault" /\ task[id].pc \in InWorkflow)
                         => Degraded(task[id].state[StageField[PcIndex[log[id][i].stage]]])

\* this step is an index request of the observing client
IndexCall == index_response' # index_response

\* C18: an index request (for a known run) whose texts and metadatas differ
\* in length is answered with an error and writes nothing into the index.
C18_LengthMismatchWritesNothing ==
    [][(/\ IndexCall
        /\ index_response'.query_id \in DOMAIN research_results
        /\ Len(index_response'.documents.texts) # Len(index_response'.documents.metadatas))
           => /\ index_response'.response.code = 400
              /\ index' = index]_vars

C20_IndexIndependentOfRuns ==
    [][(/\ IndexCall
        /\ index_response'.backend = "ok"
        /\ Len(index_response'.documents.texts) = Len(index_response'.documents.metadatas))
           => /\ index_response'.response.code = 200
              /\ research_results' = research_results]_vars

\* what the read handlers answer in a state
ReadsAnswer ==
    /\ StatusResponse(UnknownId).code = 404
    /\ ReportResponse(UnknownId).code = 404
    /\ \A id \in DOMAIN research_results :
          /\ StatusResponse(id).code = 200
          /\ ~Done(id) => ReportResponse(id).code = 400

\* C21: get_research_status and get_research_report answer 404 for an
\* identifier that is not in the registry, get_research_report answers 400
\* for a run that is not finished, and the step of a read (here: the poll
\* that a watching client records) leaves the registry and the tasks as
\* they were: no entry appears, no status becomes an error.
C21_ReadsAreReadOnly ==
    /\ []ReadsAnswer
    /\ [][polled' # polled
             => /\ research_results' = research_results
                /\ task' = task
                /\ index' = index]_vars

\* a watching client was answered for a run that is not finished, and the
\* entry still says "running"
C21_Witness ==
    \E id \in DOMAIN polled :
        /\ polled[id] = <<"running">>
        /\ ~Done(id)
        /\ ReportResponse(id).code = 400
        /\ research_results[id].status = "running"
        /\ DOMAIN research_results = DOMAIN task

\* C22: the query_id stored in an entry is the key of the entry and its
\* query is the submitted query, in every state: also after the task has
\* merged what run_research returned.
C22_IdentityIsImmutable ==
    \A id \in DOMAIN research_results :
        /\ research_results[id].query_id = id
        /\ research_results[id].query = task[id].query

\* the position of a task: scheduled, at one of the four nodes in the order
\* of the edges, past the last node, done
Position ==
    [scheduled |-> 0, web_search |-> 1, document_retrieval |-> 2, analysis |-> 3,
     write_report |-> 4, END |-> 5, done |-> 6]

\* C23: a run is at one stage at a time and moves from a stage only to the
\* next one in the order search, retrieval, analysis, writing (or out of
\* the workflow, when it ends or ainvoke raises); the agent call a step
\* records is the call of the stage the run was at and comes after the calls
\* of the earlier stages only, so no stage runs twice; the writing stage
\* runs with the analysis stored.
C23_StagesRunInOrderOnce ==
    [][\A id \in DOMAIN task :
          /\ task'[id].pc # task[id].pc
                => \/ Position[task'[id].pc] = Position[task[id].pc] + 1
                   \/ task[id].pc \in InWorkflow /\ task'[id].pc = "done"
          /\ log'[id] # log[id]
                => /\ Len(log'[id]) = Len(log[id]) + 1
                   /\ SubSeq(log'[id], 1, Len(log[id])) = log[id]
                   /\ LET e == log'[id][Len(log'[id])]
                      IN  \/ e.stage = "workflow"
                          \/ /\ e.stage = task[id].pc
                             /\ Position[task'[id].pc] = Position[task[id].pc] + 1
                             /\ \A i \in 1..Len(log[id]) :
                                   Position[log[id][i].stage] < Position[e.stage]
                             /\ e.stage = "write_report"
                                   => DOMAIN task[id].state.analysis # {}]_vars

\* a finished run that made the four agent calls, in the order of the stages
C23_Witness ==
    \E id \in DOMAIN task :
        /\ Done(id)
        /\ Len(log[id]) = 4
        /\ \A k \in 1..4 : log[id][k].stage = Stages[k]

\* where the task of run id is, "none" before the submission
PcOf(id) == IF id \in DOMAIN task THEN task[id].pc ELSE "none"

\* the status of the entry of run id, "none" before the submission
StatusOf(id) ==
    IF id \in DOMAIN research_results THEN research_results[id].status ELSE "none"

\* C24: every submitted run comes to the writing stage, and from there to a
\* terminal status in the registry, whatever the search, retrieval and
\* generation calls do (answer, fault, or make their agent raise).
C24_RunReachesWritingThenTerminal ==
    \A id \in 1..MaxRuns :
        /\ (PcOf(id) = "scheduled") ~> (PcOf(id) = "write_report")
        /\ (PcOf(id) = "write_report") ~> (PcOf(id) = "done" /\ Terminal(StatusOf(id)))

\* a finished run whose search, retrieval and both generation calls faulted
C24_Witness ==
    \E id \in DOMAIN task :
        /\ Done(id)
        /\ Terminal(research_results[id].status)
        /\ Events(id, "search", "fault") # {}
        /\ Events(id, "retrieval", "fault") # {}
        /\ Cardinality(Events(id, "generation", "fault")) = 2

\* C25: when every agent call of a run returns (no agent raises; the
\* results may be empty or degraded), run_research returns a state whose
\* status is "completed" and whose query is the query it was called with.
C25_NormalRunCompletes ==
    \A id \in DOMAIN task :
        (Done(id) /\ NoRaise(id))
            => /\ Returned(id).status = "completed"
               /\ Returned(id).query = task[id].query
               /\ task[id].exc = ""

\* run_research returned for the second query text, search and retrieval
\* both having answered with empty lists
C25_Witness ==
    \E id \in DOMAIN task :
        /\ Done(id)
        /\ NoRaise(id)
        /\ task[id].query = <<"r">>
        /\ Events(id, "search", "ok") # {}
        /\ Events(id, "retrieval", "ok") # {}
        /\ Returned(id).web_results = << >>
        /\ Returned(id).document_results = << >>
        /\ Returned(id).status = "completed"

\* a direct call of method was made and returned
Answered(method) ==
    /\ "method" \in DOMAIN call
    /\ call.method = method
    /\ call.returned

\* C26: whenever WebSearchAgent.process or DocumentAgent.process returns,
\* it returns a record with status "completed", its own agent_type, the
\* query of the call, and as results the list the underlying search
\* returned: hits, an empty list, or the one degraded hit.
C26_ProcessWrapsSearch ==
    /\ Answered("WebSearchAgent.process")
          => /\ call.result.status = "completed"
             /\ call.result.agent_type = "web_search"
             /\ call.result.query = call.query
             /\ call.result.results = search_web(call.backend)
             /\ call.backend.kind = "fault" => Degraded(call.result.results)
             /\ call.backend.kind = "ok"
                   => Len(call.result.results) = Len(call.backend.value)
    /\ Answered("DocumentAgent.process")
          => /\ call.result.status = "completed"
             /\ call.result.agent_type = "document_retrieval"
             /\ call.result.query = call.query
             /\ call.result.results = search_documents(call.backend)
             /\ call.backend.kind = "fault" => Degraded(call.result.results)
             /\ call.backend.kind = "ok"
                   => Len(call.result.results) = Len(call.backend.value)

\* WebSearchAgent.process returned the degraded hit of a faulting backend
C26_Witness ==
    /\ Answered("WebSearchAgent.process")
    /\ call.query = <<"r">>
    /\ call.backend.kind = "fault"
    /\ Degraded(call.result.results)
    /\ call.result.status = "completed"

\* C27: when the backend answers, search_web and search_documents return
\* one hit per item of the answer, in its order, with the content of the
\* item (and its title and url, or its metadata), the source tag of the
\* agent, and the score of the item or 0 when it has none.
C27_HitsMirrorBackendItems ==
    /\ (Answered("search_web") /\ call.backend.kind = "ok")
          => /\ Len(call.result) = Len(call.backend.value)
             /\ \A i \in 1..Len(call.result) :
                   LET hit == call.result[i]
                       item == call.backend.value[i]
                   IN  /\ DOMAIN hit = {"title", "url", "content", "source", "score"}
                       /\ hit.source = "web_search"
                       /\ hit.content = (IF "content" \in DOMAIN item THEN item.content ELSE << >>)
                       /\ hit.title = (IF "title" \in DOMAIN item THEN item.title ELSE << >>)
                       /\ hit.url = (IF "url" \in DOMAIN item THEN item.url ELSE << >>)
                       /\ hit.score = (IF "score" \in DOMAIN item THEN item.score ELSE 0)
    /\ (Answered("search_documents") /\ call.backend.kind = "ok")
          => /\ Len(call.result) = Len(call.backend.value)
             /\ \A i \in 1..Len(call.result) :
                   LET hit == call.result[i]
                       item == call.backend.value[i]
                   IN  /\ DOMAIN hit = {"content", "metadata", "score", "source"}
                       /\ hit.source = "document_db"
                       /\ hit.content = (IF "content" \in DOMAIN item THEN item.content ELSE << >>)
                       /\ hit.metadata =
                             (IF "metadata" \in DOMAIN item THEN item.metadata ELSE EmptyDict)
                       /\ hit.score = (IF "score" \in DOMAIN item THEN item.score ELSE 0)

\* search_web returned two hits for two different items, the second of
\* them without a score
C27_Witness ==
    /\ Answered("search_web")
    /\ call.backend.kind = "ok"
    /\ Len(call.backend.value) = 2
    /\ call.backend.value[1] = ItemA
    /\ "score" \notin DOMAIN call.backend.value[2]
    /\ Len(call.result) = 2
    /\ call.result[1].content = <<"c">>
    /\ call.result[2].content = <<"c2">>
    /\ call.result[2].score = 0

\* C28: a step of a stage changes no field of the workflow state but the
\* field of that stage (web_results for the search, document_results for
\* the retrieval, analysis for the synthesis, final_report for the
\* writing), whether its agent returned or raised; so what stages 1..N
\* stored is what stages N+1..4 leave behind.
C28_StageWritesOwnFieldOnly ==
    [][\A id \in DOMAIN task : \A k \in 1..4 :
          (task[id].pc = Stages[k] /\ task'[id].pc \in InWorkflow
                                   /\ task'[id].pc # task[id].pc)
             => /\ DOMAIN task'[id].state = DOMAIN task[id].state
                /\ \A f \in DOMAIN task[id].state \ {StageField[k]} :
                      task'[id].state[f] = task[id].state[f]]_vars

\* a run past its four stages with hits of both ports stored, whose
\* synthesis stage took the error path
C28_Witness ==
    \E id \in DOMAIN task :
        /\ task[id].pc = "END"
        /\ Len(task[id].state.web_results) = 1
        /\ Len(task[id].state.document_results) = 2
        /\ Get(task[id].state.analysis, "status", "") = "error"
        /\ IsReport(task[id].state.final_report)

\* C29: the list the synthesis agent is handed is web_results followed by
\* document_results: as long as both together, its first elements the search
\* hits in their order, the rest the documents in their order, a content
\* found by both ports present once for each.
C29_SourcesAreWebThenDocuments ==
    [][\A id \in DOMAIN task :
          (task[id].pc = "analysis" /\ Len(log'[id]) = Len(log[id]) + 1
                                    /\ log'[id][Len(log'[id])].stage = "analysis")
             => LET sources == log'[id][Len(log'[id])].sources
                    web == task[id].state.web_results
                    docs == task[id].state.document_results
                IN  /\ Len(sources) = Len(web) + Len(docs)
                    /\ \A k \in 1..Len(web) : sources[k] = web[k]
                    /\ \A k \in 1..Len(docs) : sources[Len(web) + k] = docs[k]]_vars

\* the synthesis agent was handed a search hit, then two documents, the
\* last of them with the content of the search hit
C29_Witness ==
    \E id \in DOMAIN task : \E i \in 1..Len(log[id]) :
        /\ log[id][i].stage = "analysis"
        /\ Len(log[id][i].sources) = 3
        /\ log[id][i].sources[1].source = "web_search"
        /\ log[id][i].sources[3].source = "document_db"
        /\ log[id][i].sources[1].content = log[id][i].sources[3].content

\* C30: a report of the writing stage has in its metadata the query of the
\* run, the length of web_results and the length of document_results; once
\* the run is published, get_research_report answers with the same two
\* counts.
C30_MetadataCountsMatch ==
    \A id \in DOMAIN task :
        /\ (task[id].pc \in {"END", "done"} /\ IsReport(task[id].state.final_report))
              => LET metadata == task[id].state.final_report.metadata
                 IN  /\ metadata.query = task[id].query
                     /\ metadata.web_results_count = Len(task[id].state.web_results)
                     /\ metadata.sources_count = Len(task[id].state.document_results)
        /\ (ReportResponse(id).code = 200
               /\ IsReport(research_results[id].final_report))
              => LET metadata == research_results[id].final_report.metadata
                 IN  /\ ReportResponse(id).web_results_count = metadata.web_results_count
                     /\ ReportResponse(id).document_results_count = metadata.sources_count

\* a published run with one search hit and two documents whose report is
\* served with those counts
C30_Witness ==
    \E id \in DOMAIN task :
        /\ Done(id)
        /\ ReportResponse(id).code = 200
        /\ IsReport(research_results[id].final_report)
        /\ research_results[id].final_report.metadata.web_results_count = 1
        /\ research_results[id].final_report.metadata.sources_count = 2
        /\ ReportResponse(id).document_results_count = 2

\* a stage node was applied, and applied again to its own output
Reapplied == "twice" \in DOMAIN call /\ call.twice # None

\* the state with the time stamp of its report, if it holds one, set to t
StampedAt(state, t) ==
    IF IsReport(state.final_report)
    THEN [state EXCEPT !.final_report.metadata.timestamp = t]
    ELSE state

\* C31 as stated: a stage node applied again to its own output, its agent
\* call ending the same way, returns that output unchanged.
C31_Original == Reapplied => call.twice = call.once

\* C31: a stage node applied again to its own output, its agent call ending
\* the same way, returns that output with every field of every stage
\* unchanged, except that a report carries the time of the application
\* that wrote it; the search, retrieval and synthesis nodes return their
\* output unchanged.
C31_RerunKeepsAllButTimestamp ==
    Reapplied =>
        /\ StampedAt(call.twice, 0) = StampedAt(call.once, 0)
        /\ call.stage # 4 => call.twice = call.once
        /\ \A f \in DOMAIN call.input \ {StageField[call.stage]} :
              call.twice[f] = call.input[f]

\* the writing node applied twice to a state with hits of both ports, the
\* second time later: two reports that differ in their time stamp only
C31_Witness ==
    /\ Reapplied
    /\ call.stage = 4
    /\ Len(call.input.web_results) = 1
    /\ Len(call.input.document_results) = 2
    /\ IsReport(call.once.final_report)
    /\ call.twice.final_report.metadata.timestamp
          # call.once.final_report.metadata.timestamp

\* the agent calls of run id so far, none before the submission
LogOf(id) == IF id \in DOMAIN log THEN log[id] ELSE << >>

\* the workflow state of run id, empty before run_research built it
StateOf(id) == IF id \in DOMAIN task THEN task[id].state ELSE EmptyDict

\* the stages of run id whose agent call raised
RaisedIn(id) ==
    {k \in 1..4 : \E i \in 1..Len(LogOf(id)) :
        LogOf(id)[i].stage = Stages[k] /\ LogOf(id)[i].outcome = "raise"}

\* how many times the agent of stage k was called in run id
Calls(id, k) == Cardinality({i \in 1..Len(LogOf(id)) : LogOf(id)[i].stage = Stages[k]})

\* the field of stage k holds what the node stores when its agent raised
HoldsFallback(state, k) ==
    LET field == Get(state, StageField[k], None)
    IN  IF k <= 2
        THEN field = << >>
        ELSE Get(field, "status", "") = "error" /\ Get(field, "error", "") # ""

\* C32: in a run whose workflow is left to run, a stage whose agent call
\* raised has stored its fallback (an empty list for search and retrieval,
\* a record tagged as an error for synthesis and writing), the run has moved
\* past that stage and no agent was called twice; and such a run goes on to
\* finish as completed with the agents of search, retrieval and writing
\* called once each, and the synthesis agent once when there was a source
\* and the fixed narrative stored when there was none.
C32_RaisingStageDoesNotStopTheRun ==
    \A id \in 1..MaxRuns :
        /\ [](\A k \in RaisedIn(id) :
                 /\ Position[PcOf(id)] > k
                 /\ HoldsFallback(StateOf(id), k)
                 /\ \A j \in 1..4 : Calls(id, j) <= 1)
        /\ (RaisedIn(id) # {})
              ~> /\ PcOf(id) = "done"
                 /\ StatusOf(id) = "completed"
                 /\ Calls(id, 1) = 1
                 /\ Calls(id, 2) = 1
                 /\ Calls(id, 4) = 1
                 /\ \/ Calls(id, 3) = 1
                    \/ Get(Get(StateOf(id), "analysis", EmptyDict), "analysis", << >>)
                          = <<"No sources found for analysis">>

\* a completed run whose search, synthesis and writing agents all raised
C32_Witness ==
    \E id \in DOMAIN task :
        /\ Done(id)
        /\ research_results[id].status = "completed"
        /\ RaisedIn(id) = {1, 3, 4}
        /\ Len(log[id]) = 4

\* C33: whenever get_research_report answers with a report (200) for a run,
\* the stored final_report is a report of the writing stage for the query
\* of the run, the title and content of the answer are its title and
\* content, and they are not the empty texts read from an error marker.
C33_ReportIsTheWritersReport ==
    \A id \in DOMAIN research_results :
        ReportResponse(id).code = 200
            => /\ IsReport(research_results[id].final_report)
               /\ research_results[id].final_report.metadata.query = task[id].query
               /\ ReportResponse(id).title = research_results[id].final_report.title
               /\ ReportResponse(id).content = research_results[id].final_report.content
               /\ ReportResponse(id).title # << >>
               /\ ReportResponse(id).content # << >>

\* C34: a successful index request assigns identifiers under which nothing
\* is stored yet, and leaves every document indexed before it stored under
\* its identifier as it was.
C34_IndexIdsAreFresh ==
    [][(IndexCall /\ index_response'.response.code = 200)
           => /\ \A i \in 1..Len(index_response'.response.document_ids) :
                    index_response'.response.document_ids[i] \notin DOMAIN index
              /\ \A d \in DOMAIN index :
                    d \in DOMAIN index' /\ index'[d] = index[d]]_vars

====
